---- MODULE Spec2Model ----
(***************************************************************************)
(* A model of the graph layout engine of db-erd-gen                        *)
(* (src/src/utils/layoutAlgorithms.ts): the layout strategies as           *)
(* operators, computed as the code computes them, and one action per       *)
(* exported function; and of the render cycle of the component that calls  *)
(* it (src/src/components/ERTableComp.tsx).                                 *)
(*                                                                         *)
(* Coordinates.  The layouts centre rows and stacks with "/ 2" and the      *)
(* force-directed layout pulls with 0.01, so a position is kept in         *)
(* HUNDREDTHS OF A PIXEL: the integer 100 * p stands for the JavaScript    *)
(* number p.  Every pixel quantity q of the code (a spacing, a height, a   *)
(* centre) enters an expression as Px(q) = 100 * q.  The deterministic     *)
(* layouts (hierarchical, x, y, box) are exact in this unit.  The          *)
(* force-directed layout divides and takes square roots: there a result    *)
(* is rounded towards 0 to the unit, where the code rounds to a double.     *)
(***************************************************************************)
EXTENDS Integers, Sequences, FiniteSets, TLC

VARIABLES
    pc,         \* "start" before the call, then the name of the function that ran
    kind,       \* the LayoutRule / LayoutType given to placeNodesByRule / inputDataToNodeAndEdges
    tables,     \* the Table[] argument of inputDataToNodeAndEdges
    nodes,      \* the Node[] argument of a layout: records [id, gen, x, y, columns, width, IsIsolated]
    edges,      \* the Edge[] argument of a layout: records [source, target, col]
    opts,       \* the options of the call: a record of the keys the caller gave
    random,     \* the values Math.random() returned during the call
    synthEdges, \* inputDataToNodeAndEdges: initialEdges when the table loop ends
    part,       \* the isolated / connected (linked) node ids the call worked with
    levels,     \* calculateHierarchicalLayout: connectedLevels, visited, visiting at its end
    out,        \* the Node[] returned: records [id, x, y, gen]
    memo,       \* a call the caller remembers: [fn, opts, out]
    outEdges,   \* the Edge[] returned by inputDataToNodeAndEdges
    ERTableComp \* the component that shows the result: its inputs, its scheduled work

vars ==
    <<pc, kind, tables, nodes, edges, opts, random, synthEdges, part, levels, out, outEdges, memo,
      ERTableComp>>

--------------------------------------------------------------------------
(* Bounds of the model *)

MaxNodes == 5
MaxEdges == 2

(* The universe of node ids; a node list is a prefix of it. *)
NodeIds == <<"A", "B", "C", "D", "E", "F", "G">>

--------------------------------------------------------------------------
(* Arithmetic helpers *)

Px(q) == 100 * q

Min(a, b) == IF a < b THEN a ELSE b

Max(a, b) == IF a > b THEN a ELSE b

Range(s) == {s[i] : i \in DOMAIN s}

(* a / b for b > 0, rounded towards 0: like the code's division, it gives  *)
(* -q for -a when it gives q for a                                          *)
Div(a, b) == IF a >= 0 THEN a \div b ELSE 0 - ((0 - a) \div b)

RECURSIVE SeqMax(_)
SeqMax(s) == IF Len(s) = 1 THEN s[1] ELSE Max(s[1], SeqMax(Tail(s)))

RECURSIVE SeqSum(_)
SeqSum(s) == IF s = <<>> THEN 0 ELSE s[1] + SeqSum(Tail(s))

(* Array.prototype.findIndex, 1-based; 0 stands for -1 *)
FindIndex(s, id) ==
    IF \E i \in DOMAIN s : s[i].id = id
    THEN CHOOSE i \in DOMAIN s : s[i].id = id /\ \A j \in 1..(i - 1) : s[j].id # id
    ELSE 0

--------------------------------------------------------------------------
(* Node, Edge *)

(* A node: its id, position, data.columns.length, data.width, data.IsIsolated. *)
(* id and gen name the object: gen is 0 for an object of the caller and one *)
(* more for an object made from it by { ...node }                           *)
MakeNode(id, cols) ==
    [id |-> id, gen |-> 0, x |-> 0, y |-> 0, columns |-> cols, width |-> 320,
     IsIsolated |-> FALSE]

(* An edge; col tells the edges of one table apart (the column that owns the key) *)
Edge(s, t) == [source |-> s, target |-> t, col |-> 0]

(* node.position = { x, y } written into the node given *)
PosInPlace(node, x, y) == [id |-> node.id, gen |-> node.gen, x |-> x, y |-> y]

(* node.position.x += x, node.position.y += y written into the node given *)
PosDrift(node, x, y) == [id |-> node.id, gen |-> node.gen, x |-> node.x + x, y |-> node.y + y]

(* { ...node, position: { x, y } }: a new object *)
Pos(node, x, y) == [id |-> node.id, gen |-> node.gen + 1, x |-> x, y |-> y]

(* The node itself, as a returned list holds it *)
Same(node) == [id |-> node.id, gen |-> node.gen, x |-> node.x, y |-> node.y]

(* The caller's node list when a call has returned result: a node that the  *)
(* result holds too (the same object) has the position the result shows     *)
inputAfter(ns, result) ==
    [i \in DOMAIN ns |->
        IF \E k \in DOMAIN result : result[k].id = ns[i].id /\ result[k].gen = ns[i].gen
        THEN LET r == result[CHOOSE k \in DOMAIN result :
                                 result[k].id = ns[i].id /\ result[k].gen = ns[i].gen]
             IN [ns[i] EXCEPT !.x = r.x, !.y = r.y]
        ELSE ns[i]]

(* const { key = default } = options *)
Opt(o, key, default) == IF key \in DOMAIN o THEN o[key] ELSE default

NoOptions == <<>>

NoPart == [isolated |-> <<>>, connected |-> <<>>]

(* No call remembered *)
NoMemo == [fn |-> "", opts |-> NoOptions, out |-> <<>>]

(* No component mounted *)
NotMounted == [mounted |-> FALSE]

Ids(ns) == [i \in DOMAIN ns |-> ns[i].id]

--------------------------------------------------------------------------
(* calculateHierarchicalLayout *)

(* incomingEdges.get(id) || [] : the sources of the edges into id, in edge order *)
RECURSIVE incomingEdges(_, _)
incomingEdges(es, id) ==
    IF es = <<>> THEN <<>>
    ELSE (IF es[1].target = id THEN <<es[1].source>> ELSE <<>>) \o incomingEdges(Tail(es), id)

RECURSIVE outgoingEdges(_, _)
outgoingEdges(es, id) ==
    IF es = <<>> THEN <<>>
    ELSE (IF es[1].source = id THEN <<es[1].target>> ELSE <<>>) \o outgoingEdges(Tail(es), id)

hasOutgoing(es, id) == Len(outgoingEdges(es, id)) > 0

hasIncoming(es, id) == Len(incomingEdges(es, id)) > 0

(* The test that looks at the incoming edges only *)
isConnectedNodeIncomingOnly(es, node) == hasIncoming(es, node.id)

isConnectedNode(es, node) == hasOutgoing(es, node.id) \/ hasIncoming(es, node.id)

connectedNodes(ns, es) == LET T(n) == isConnectedNode(es, n) IN SelectSeq(ns, T)

isolatedNodes(ns, es) == LET T(n) == ~isConnectedNode(es, n) IN SelectSeq(ns, T)

(* The scratch state of one level assignment: connectedLevels, visited, visiting *)
(* entered and resolved list the ids in the order of the calls of           *)
(* visiting.add and of visited.add; revisited holds the ids for which       *)
(* visiting.has was true                                                    *)
LevelInit ==
    [connectedLevels |-> <<>>, visited |-> {}, visiting |-> {},
     entered |-> <<>>, resolved |-> <<>>, revisited |-> {}]

(* The level taken from the first parent only *)
levelFromFirstParent(ls) == IF Len(ls) > 0 THEN ls[1] + 1 ELSE 0

(* parentLevels.length > 0 ? Math.max(...parentLevels) + 1 : 0 *)
levelFromParents(ls) == IF Len(ls) > 0 THEN SeqMax(ls) + 1 ELSE 0

(* The visited set that never takes an id *)
visitedAddNothing(visited, nodeId) == visited

(* visited.add(nodeId) *)
visitedAdd(visited, nodeId) == visited \cup {nodeId}

(* assignLevel(nodeId): returns the level and the scratch state it leaves *)
RECURSIVE assignLevel(_, _, _)
RECURSIVE parentLevels(_, _, _)
parentLevels(es, parents, st) ==
    IF parents = <<>> THEN [st |-> st, levels |-> <<>>]
    ELSE LET first == assignLevel(es, parents[1], st)
             rest == parentLevels(es, Tail(parents), first.st)
         IN [st |-> rest.st, levels |-> <<first.level>> \o rest.levels]

assignLevel(es, nodeId, st) ==
    IF nodeId \in st.visited THEN [st |-> st, level |-> st.connectedLevels[nodeId]]
    ELSE IF nodeId \in st.visiting
         THEN [st |-> [st EXCEPT !.revisited = @ \cup {nodeId}], level |-> 0]
    ELSE LET entered == [st EXCEPT !.visiting = @ \cup {nodeId},
                                   !.entered = Append(@, nodeId)]
             r == parentLevels(es, incomingEdges(es, nodeId), entered)
             level == levelFromParents(r.levels)
         IN [st |-> [connectedLevels |->
                        (nodeId :> level) @@ r.st.connectedLevels,
                     visited |-> visitedAdd(r.st.visited, nodeId),
                     visiting |-> r.st.visiting \ {nodeId},
                     entered |-> r.st.entered,
                     revisited |-> r.st.revisited,
                     resolved |-> Append(r.st.resolved, nodeId)],
             level |-> level]

(* connectedNodes.forEach(node => assignLevel(node.id)) *)
RECURSIVE assignLevels(_, _, _)
assignLevels(es, cs, st) ==
    IF cs = <<>> THEN st
    ELSE assignLevels(es, Tail(cs), assignLevel(es, cs[1].id, st).st)

(* connectedLevels.get(node.id) || 0 *)
levelOf(st, id) == IF id \in DOMAIN st.connectedLevels THEN st.connectedLevels[id] ELSE 0

(* connectedNodesByLevel.get(level): the connected nodes of a level, in input order *)
levelNodes(cs, st, level) == LET T(n) == levelOf(st, n.id) = level IN SelectSeq(cs, T)

connectedStartY == 200

nodeSpacing(o) == Opt(o, "nodeSpacing", 200)

levelSpacing(o) == Opt(o, "levelSpacing", 150)

isolatedNodesPerRow(o) == Opt(o, "isolatedNodesPerRow", 5)

isolatedNodeSpacing(o) == Opt(o, "isolatedNodeSpacing", nodeSpacing(o))

isolatedRowSpacing(o) == Opt(o, "isolatedRowSpacing", 120)

(* The level row that starts at centerX *)
levelStartXAtCenter(centerX, levelWidth) == Px(centerX)

(* centerX - levelWidth / 2 *)
levelStartX(centerX, levelWidth) == Px(centerX) - levelWidth \div 2

(* The position of a connected node: lines 102-121 *)
connectedPosition(cs, st, o, node) ==
    LET level == levelOf(st, node.id)
        row == levelNodes(cs, st, level)
        index == FindIndex(row, node.id) - 1
        levelWidth == (Len(row) - 1) * Px(nodeSpacing(o))
        startX == levelStartX(Opt(o, "centerX", 400), levelWidth)
    IN Pos(node, startX + index * Px(nodeSpacing(o)),
                 Px(connectedStartY) + level * Px(levelSpacing(o)))

(* Every isolated row taken to be a full one *)
isolatedInRowFull(perRow, count, row) == perRow

(* Math.min(isolatedNodesPerRow, isolatedNodes.length - row * isolatedNodesPerRow) *)
isolatedInRow(perRow, count, row) == Min(perRow, count - row * perRow)

(* The position of the isolated node of index `index` (0-based): lines 124-151 *)
isolatedPosition(is, o, node, index) ==
    LET perRow == isolatedNodesPerRow(o)
        row == index \div perRow
        col == index % perRow
        isolatedStartY == Px(connectedStartY) - Px(levelSpacing(o))
        currentY == isolatedStartY + row * Px(isolatedRowSpacing(o))
        inRow == isolatedInRow(perRow, Len(is), row)
        (* line 126 for the first row, line 135 for a later one *)
        currentX == Px(Opt(o, "centerX", 400))
                    - ((inRow - 1) * Px(isolatedNodeSpacing(o))) \div 2
    IN Pos(node, currentX + col * Px(isolatedNodeSpacing(o)), currentY)

calculateHierarchicalLayout(ns, es, o) ==
    IF Len(ns) = 0 THEN ns
    ELSE LET cs == connectedNodes(ns, es)
             is == isolatedNodes(ns, es)
             st == assignLevels(es, cs, LevelInit)
         IN [i \in DOMAIN ns |->
                IF FindIndex(cs, ns[i].id) # 0
                THEN connectedPosition(cs, st, o, ns[i])
                ELSE isolatedPosition(is, o, ns[i], FindIndex(is, ns[i].id) - 1)]

(* connectedLevels, visited and visiting when calculateHierarchicalLayout returns *)
hierarchicalLevels(ns, es) ==
    IF Len(ns) = 0 THEN LevelInit
    ELSE assignLevels(es, connectedNodes(ns, es), LevelInit)

(* The two groups calculateHierarchicalLayout works with: lines 49-62 *)
hierarchicalPart(ns, es) ==
    IF Len(ns) = 0 THEN NoPart
    ELSE [isolated |-> Ids(isolatedNodes(ns, es)), connected |-> Ids(connectedNodes(ns, es))]

--------------------------------------------------------------------------
(* calculateYLayout *)

(* 47 + columns.length * 28 *)
nodeHeight(node) == 47 + node.columns * 28

nodeHeights(ns) == [i \in DOMAIN ns |-> nodeHeight(ns[i])]

(* data.width when it is a number, else 320 *)
nodeWidths(ns) == [i \in DOMAIN ns |-> ns[i].width]

(* yGap without the floor at 0: the gap is the offset as given *)
yGapUnfloored(o) == Opt(o, "offset", 200)

(* Math.max(0, offset) *)
yGap(o) == Max(0, Opt(o, "offset", 200))

(* The total height that leaves the gaps out *)
yTotalHeightNoGaps(hs, gap) == SeqSum(hs)

(* nodeHeights.reduce((s, h) => s + h, 0) + gap * (nodes.length - 1) *)
yTotalHeight(hs, gap) == SeqSum(hs) + gap * (Len(hs) - 1)

calculateYLayout(ns, o) ==
    IF Len(ns) = 0 THEN ns
    ELSE LET gap == yGap(o)
             hs == nodeHeights(ns)
             totalHeight == yTotalHeight(hs, gap)
             startY == Px(Opt(o, "centerY", 300)) - Px(totalHeight) \div 2
         IN [i \in DOMAIN ns |->
                Pos(ns[i], Px(Opt(o, "x", 0)),
                    startY + SeqSum([j \in 1..(i - 1) |-> Px(hs[j] + gap)]))]

--------------------------------------------------------------------------
(* calculateBoxLayout *)

(* Math.ceil(Math.sqrt(n)) *)
CeilSqrt(n) == CHOOSE c \in 0..n : c * c >= n /\ \A d \in 0..(c - 1) : d * d < n

(* Math.ceil(n / cols) *)
CeilDiv(n, cols) == (n + cols - 1) \div cols

(* The number of rows rounded down *)
boxRowsFloor(n, cols) == n \div cols

(* Math.ceil(nodes.length / cols) *)
boxRows(n, cols) == CeilDiv(n, cols)

(* rowsIndices[r], r 0-based, as 1-based node indices: lines 470-481 *)
rowsIndices(n, cols, r) ==
    LET start == r * cols
        end == Min(start + cols, n)
    IN [k \in 1..(end - start) |-> start + k]

(* rowMaxHeights taking the row's first node for its tallest *)
rowMaxHeightsFirst(hs, cols, r) ==
    LET indices == rowsIndices(Len(hs), cols, r)
    IN IF indices = <<>> THEN 0 ELSE hs[indices[1]]

rowMaxHeights(hs, cols, r) ==
    LET indices == rowsIndices(Len(hs), cols, r)
    IN IF indices = <<>> THEN 0 ELSE SeqMax([k \in DOMAIN indices |-> hs[indices[k]]])

(* The x of the node at place idxInRow (0-based) of row r: lines 497-518, 559-582 *)
boxX(ws, cols, r, idxInRow, o) ==
    LET indices == rowsIndices(Len(ws), cols, r)
        offsetX == Opt(o, "offsetX", 200)
        sumWidths == SeqSum([k \in DOMAIN indices |-> ws[indices[k]]])
        rowWidth == sumWidths + Max(0, Len(indices) - 1) * offsetX
        rowStartX == Px(Opt(o, "centerX", 400)) - Px(rowWidth) \div 2
    IN rowStartX + SeqSum([k \in 1..idxInRow |-> Px(ws[indices[k]] + offsetX)])

(* compact = false: lines 483-525 *)
boxRowY(hs, cols, rows, r, o) ==
    LET offsetY == Opt(o, "offsetY", 150)
        totalHeight == SeqSum([q \in 1..rows |-> rowMaxHeights(hs, cols, q - 1)])
                       + offsetY * Max(0, rows - 1)
        startY == Px(Opt(o, "centerY", 300)) - Px(totalHeight) \div 2
        accumulatedY == SeqSum([q \in 1..r |-> Px(rowMaxHeights(hs, cols, q - 1) + offsetY)])
    IN startY + accumulatedY

(* colTotals[col], col 0-based: lines 532-545 *)
colTotals(hs, cols, col, o) ==
    LET inCol == {i \in DOMAIN hs : (i - 1) % cols = col}
        count == Cardinality(inCol)
        h == SeqSum([i \in DOMAIN hs |-> IF i \in inCol THEN hs[i] ELSE 0])
    IN IF count > 0 THEN h + Opt(o, "offsetY", 150) * Max(0, count - 1) ELSE 0

(* boxCompactY stacking by rows, as the non-compact mode does *)
boxCompactYByRow(hs, cols, nodeIdx, o) ==
    boxRowY(hs, cols, CeilDiv(Len(hs), cols), nodeIdx \div cols, o)

(* compact = true: lines 547-585; nodeIdx is the node's 0-based index *)
boxCompactY(hs, cols, nodeIdx, o) ==
    LET col == nodeIdx % cols
        maxColHeight == SeqMax([c \in 1..cols |-> colTotals(hs, cols, c - 1, o)] \o <<0>>)
        compactStartY == Px(Opt(o, "centerY", 300)) - Px(maxColHeight) \div 2
        colAccumulatedY ==
            SeqSum([i \in 1..nodeIdx |->
                      IF (i - 1) % cols = col
                      THEN Px(hs[i] + Opt(o, "offsetY", 150)) ELSE 0])
    IN compactStartY + colAccumulatedY

(* positioned[nodeIdx] is assigned in the loop over the rows r < rows, for  *)
(* the indices of rowsIndices[r]                                            *)
boxAssigned(n, cols, rows, i) ==
    \E r \in 0..(rows - 1) :
        \E k \in DOMAIN rowsIndices(n, cols, r) : rowsIndices(n, cols, r)[k] = i

(* An element of positioned that was never assigned *)
boxHole == [id |-> "undefined", gen |-> 0, x |-> 0, y |-> 0]

calculateBoxLayout(ns, o) ==
    IF Len(ns) = 0 THEN ns
    ELSE LET cols == CeilSqrt(Len(ns))
             rows == boxRows(Len(ns), cols)
             hs == nodeHeights(ns)
             ws == nodeWidths(ns)
         IN [i \in DOMAIN ns |->
                LET r == (i - 1) \div cols
                    idxInRow == (i - 1) % cols
                IN IF boxAssigned(Len(ns), cols, rows, i)
                   THEN Pos(ns[i], boxX(ws, cols, r, idxInRow, o),
                            IF Opt(o, "compact", FALSE)
                            THEN boxCompactY(hs, cols, i - 1, o)
                            ELSE boxRowY(hs, cols, rows, r, o))
                   ELSE boxHole]

--------------------------------------------------------------------------
(* calculateCircularLayout *)

(* The angles index * (2 * pi / n) - pi / 2 of n <= 6 nodes are whole       *)
(* degrees; Math.cos and Math.sin of them, in 1/10000.                      *)
Cos(deg) ==
    CASE deg \in {0 - 90, 90, 270} -> 0
      [] deg \in {0 - 30, 30} -> 8660
      [] deg \in {150, 210} -> 0 - 8660
      [] deg = 0 - 18 -> 9511
      [] deg = 198 -> 0 - 9511
      [] deg = 54 -> 5878
      [] deg = 126 -> 0 - 5878
      [] deg = 0 -> 10000
      [] deg = 180 -> 0 - 10000

Sin(deg) ==
    CASE deg \in {0 - 90, 270} -> 0 - 10000
      [] deg = 90 -> 10000
      [] deg \in {30, 150} -> 5000
      [] deg \in {0 - 30, 210} -> 0 - 5000
      [] deg \in {0 - 18, 198} -> 0 - 3090
      [] deg \in {54, 126} -> 8090
      [] deg \in {0, 180} -> 0

(* The circular layout that returns nothing for the empty list *)
calculateCircularLayoutNoReturn(ns, o) == <<"undefined">>

(* Every node at the top of the circle *)
circularAngleTop(index, angleStep) == 0 - 90

(* index * angleStep - Math.PI / 2, in degrees *)
circularAngle(index, angleStep) == index * angleStep - 90

calculateCircularLayout(ns, o) ==
    IF Len(ns) = 0 THEN ns
    ELSE LET angleStep == 360 \div Len(ns)
         IN [i \in DOMAIN ns |->
                LET angle == circularAngle(i - 1, angleStep)
                IN Pos(ns[i],
                       Px(Opt(o, "centerX", 400)) + Div(Opt(o, "radius", 100) * Cos(angle), 100),
                       Px(Opt(o, "centerY", 300)) + Div(Opt(o, "radius", 100) * Sin(angle), 100))]

--------------------------------------------------------------------------
(* calculateXLayout *)

(* nodeWidths[index] || 320 *)
widthOr320(w) == IF w = 0 THEN 320 ELSE w

(* The cursor that advances by the first node's width only *)
xAdvanceFirstWidth(width, singeNodeWidth) == Px(singeNodeWidth)

(* xCursor += width + singeNodeWidth *)
xAdvance(width, singeNodeWidth) == Px(width + singeNodeWidth)

calculateXLayout(ns, o) ==
    IF Len(ns) = 0 THEN ns
    ELSE LET ws == nodeWidths(ns)
             singeNodeWidth == ws[1]
             totalWidth == singeNodeWidth * Max(0, Len(ns) - 1)
             startX == Px(Opt(o, "centerX", 400)) - Px(totalWidth) \div 2
         IN [i \in DOMAIN ns |->
                LET width == widthOr320(ws[i])
                    xCursor == startX
                               + SeqSum([j \in 1..(i - 1) |->
                                           xAdvance(widthOr320(ws[j]), singeNodeWidth)])
                IN Pos(ns[i], xCursor + Px(width) \div 2, Px(Opt(o, "y", 0 - 500)))]

--------------------------------------------------------------------------
(* calculateForceDirectedLayout                                             *)
(*                                                                          *)
(* Positions and velocities are in 1/100 pixel.  The options                *)
(* attractionForce and damping are fractions in the code (0.1, 0.9): the    *)
(* options record gives them in hundredths (10, 90).  A draw of             *)
(* Math.random() is given in hundredths too (50 stands for 0.5).            *)

(* Math.sqrt, rounded down *)
RECURSIVE SqrtBetween(_, _, _)
SqrtBetween(n, lo, hi) ==
    IF lo = hi THEN lo
    ELSE LET mid == (lo + hi + 1) \div 2
         IN IF mid * mid <= n THEN SqrtBetween(n, mid, hi) ELSE SqrtBetween(n, lo, mid - 1)

Sqrt(n) == SqrtBetween(n, 0, 46340)

(* Math.sqrt(dx * dx + dy * dy) *)
Distance(dx, dy) == Sqrt(dx * dx + dy * dy)

(* repulsionMultiplier || 1 *)
repulsionMultiplier(o) ==
    IF Opt(o, "repulsionMultiplier", 1) = 0 THEN 1 ELSE Opt(o, "repulsionMultiplier", 1)

(* lines 212-219: x = centerX + (Math.random() - 0.5) * 400, velocity 0 *)
initialPlacement(ns, o, rnd) ==
    [i \in DOMAIN ns |->
        [id |-> ns[i].id,
         x |-> Px(Opt(o, "centerX", 400)) + (rnd[i].x - 50) * 400,
         y |-> Px(Opt(o, "centerY", 300)) + (rnd[i].y - 50) * 400,
         vx |-> 0, vy |-> 0]]

(* The pairs (i, j), i < j, in the order of the nested loops *)
Pairs(n) ==
    LET count == (n * (n - 1)) \div 2
        Before(i) == ((i - 1) * (2 * n - i)) \div 2
        RowOf(k) == CHOOSE i \in 1..n : Before(i) < k /\ k <= Before(i) + (n - i)
    IN [k \in 1..count |-> <<RowOf(k), RowOf(k) + (k - Before(RowOf(k)))>>]

(* lines 236-254: the repulsion between nodes i and j.  A raw distance of 0 *)
(* becomes 0.0001, and dx = dy = 0 then make fx = fy = 0.                   *)
repelPair(ps, i, j, o) ==
    LET dx == ps[j].x - ps[i].x
        dy == ps[j].y - ps[i].y
        distance == Distance(dx, dy)
        effectiveRepulsion == Opt(o, "repulsionForce", 1000) * repulsionMultiplier(o)
        force == (effectiveRepulsion * 1000000) \div (distance * distance)
        fx == IF distance = 0 THEN 0 ELSE Div(dx * force, distance)
        fy == IF distance = 0 THEN 0 ELSE Div(dy * force, distance)
    IN [ps EXCEPT ![i].vx = @ - fx, ![i].vy = @ - fy,
                  ![j].vx = @ + fx, ![j].vy = @ + fy]

RECURSIVE repelAll(_, _, _)
repelAll(ps, pairs, o) ==
    IF pairs = <<>> THEN ps
    ELSE repelAll(repelPair(ps, pairs[1][1], pairs[1][2], o), Tail(pairs), o)

(* lines 259-277: the attraction along one edge; both ends must be nodes.   *)
(* A distance of 0 becomes 1, and dx = dy = 0 then make fx = fy = 0.        *)
attractEdge(ps, e, o) ==
    LET s == FindIndex(ps, e.source)
        t == FindIndex(ps, e.target)
    IN IF s = 0 \/ t = 0 THEN ps
       ELSE LET dx == ps[t].x - ps[s].x
                dy == ps[t].y - ps[s].y
                distance == Distance(dx, dy)
                force == (Opt(o, "attractionForce", 10) * distance) \div 100
                fx == IF distance = 0 THEN 0 ELSE Div(dx * force, distance)
                fy == IF distance = 0 THEN 0 ELSE Div(dy * force, distance)
                pulled == [ps EXCEPT ![s].vx = @ + fx, ![s].vy = @ + fy]
            IN [pulled EXCEPT ![t].vx = @ - fx, ![t].vy = @ - fy]

RECURSIVE attractAll(_, _, _)
attractAll(ps, es, o) ==
    IF es = <<>> THEN ps ELSE attractAll(attractEdge(ps, es[1], o), Tail(es), o)

effectiveMinDist(o) == Px(Opt(o, "minDistance", 150) * repulsionMultiplier(o))

(* lines 284-302: the collision correction of nodes i and j.  A distance of *)
(* 0 becomes 0.0001, and dx = dy = 0 then make nx = ny = 0: nothing moves.  *)
collidePair(ps, i, j, o) ==
    LET dx == ps[j].x - ps[i].x
        dy == ps[j].y - ps[i].y
        dist == Distance(dx, dy)
        overlap == effectiveMinDist(o) - dist
        mx == IF dist = 0 THEN 0 ELSE Div(dx * (overlap \div 2), dist)
        my == IF dist = 0 THEN 0 ELSE Div(dy * (overlap \div 2), dist)
    IN IF dist < effectiveMinDist(o)
       THEN [ps EXCEPT ![i].x = @ - mx, ![i].y = @ - my,
                       ![j].x = @ + mx, ![j].y = @ + my]
       ELSE ps

RECURSIVE collideAll(_, _, _)
collideAll(ps, pairs, o) ==
    IF pairs = <<>> THEN ps
    ELSE collideAll(collidePair(ps, pairs[1][1], pairs[1][2], o), Tail(pairs), o)

(* lines 307-319: damping, the pull to the centre, the position update *)
moveNode(p, o) ==
    LET vx == Div(p.vx * Opt(o, "damping", 90), 100) + Div(Px(Opt(o, "centerX", 400)) - p.x, 100)
        vy == Div(p.vy * Opt(o, "damping", 90), 100) + Div(Px(Opt(o, "centerY", 300)) - p.y, 100)
    IN [p EXCEPT !.vx = vx, !.vy = vy, !.x = @ + vx, !.y = @ + vy]

(* One pass of the loop of line 232 *)
forceIteration(ps, es, o) ==
    LET repelled == repelAll(ps, Pairs(Len(ps)), o)
        attracted == attractAll(repelled, es, o)
        collided == collideAll(attracted, Pairs(Len(ps)), o)
    IN [i \in DOMAIN ps |-> moveNode(collided[i], o)]

RECURSIVE forceIterations(_, _, _, _)
forceIterations(ps, es, o, iter) ==
    IF iter <= 0 THEN ps ELSE forceIterations(forceIteration(ps, es, o), es, o, iter - 1)

calculateForceDirectedLayout(ns, es, o, rnd) ==
    IF Len(ns) = 0 THEN ns
    ELSE LET ps == forceIterations(initialPlacement(ns, o, rnd), es, o,
                                   Opt(o, "iterations", 50))
         IN [i \in DOMAIN ps |-> Pos(ns[i], ps[i].x, ps[i].y)]

--------------------------------------------------------------------------
(* placeNodesByRule *)

(* layoutFn: the strategy the rule selects; rnd are the draws of a force run *)
layoutFn(rule, ns, es, o, rnd) ==
    CASE rule = "circular" -> calculateCircularLayout(ns, o)
      [] rule = "force" -> calculateForceDirectedLayout(ns, es, o, rnd)
      [] rule = "x" -> calculateXLayout(ns, o)
      [] rule = "y" -> calculateYLayout(ns, o)
      [] rule = "box" -> calculateBoxLayout(ns, o)
      [] OTHER -> calculateHierarchicalLayout(ns, es, o)

(* positionedMap.has(id) / positionedMap.get(id): the last entry set for id *)
positionedMapHas(all, id) == \E k \in DOMAIN all : all[k].id = id

positionedMapGet(all, id) ==
    all[CHOOSE k \in DOMAIN all :
            all[k].id = id /\ \A m \in DOMAIN all : all[m].id = id => m <= k]

(* The positioned halves as they are, the isolated half first *)
recombineHalves(ns, all) == all

(* The nodes in their input order, each with the position computed for it *)
recombine(ns, all) ==
    [i \in DOMAIN ns |->
        IF positionedMapHas(all, ns[i].id)
        THEN positionedMapGet(all, ns[i].id)
        ELSE Same(ns[i])]

IsIsolatedNode(n) == n.IsIsolated

NotIsolatedNode(n) == ~n.IsIsolated

layoutIfAny(rule, ns, es, o, rnd) ==
    IF Len(ns) > 0 THEN layoutFn(rule, ns, es, o, rnd) ELSE <<>>

(* rnd[i] are the draws for the i-th node of isolated \o nonIsolated *)
placeNodesByRuleSplit(isolated, nonIsolated, ns, es, rule, o, rnd) ==
    recombine(ns,
              layoutIfAny(rule, isolated, <<>>, o, SubSeq(rnd, 1, Len(isolated)))
              \o layoutIfAny(rule, nonIsolated, es, o, SubSeq(rnd, Len(isolated) + 1, Len(rnd))))

placeNodesByRule(ns, es, rule, o, rnd) ==
    placeNodesByRuleSplit(SelectSeq(ns, IsIsolatedNode), SelectSeq(ns, NotIsolatedNode),
                          ns, es, rule, o, rnd)

--------------------------------------------------------------------------
(* inputDataToNodeAndEdges *)

(* The table names of the model, in the order a table list holds them *)
TableNames == <<"B|C", "A", "C", "A|B">>

(* The same names in the order of the < of JavaScript strings *)
NameOrder == <<"A", "A|B", "B|C", "C">>

IndexOf(s, v) == CHOOSE i \in DOMAIN s : s[i] = v

(* a < b on strings *)
StringLess(a, b) == IndexOf(NameOrder, a) < IndexOf(NameOrder, b)

(* A column without and with foreignTo *)
PlainColumn(name) == [name |-> name]

ForeignColumn(name, to) == [name |-> name, foreignTo |-> [name |-> to, column |-> "id"]]

hasForeignTo(k) == "foreignTo" \in DOMAIN k

(* The edge pushed for column k of table; col stands for the handles, which *)
(* name the owning column                                                   *)
synthesizedEdgeReversed(table, k) ==
    [source |-> table.name, target |-> k.foreignTo.name, col |-> k.name]

synthesizedEdge(table, k) ==
    [source |-> k.foreignTo.name, target |-> table.name, col |-> k.name]

(* The inner loop over Object.entries(table.columns) *)
RECURSIVE columnEdges(_, _)
columnEdges(table, cols) ==
    IF cols = <<>> THEN <<>>
    ELSE (IF hasForeignTo(cols[1]) THEN <<synthesizedEdge(table, cols[1])>> ELSE <<>>)
         \o columnEdges(table, Tail(cols))

(* initialEdges when the loop over tablesArr ends *)
RECURSIVE synthesizeEdges(_)
synthesizeEdges(ts) ==
    IF ts = <<>> THEN <<>>
    ELSE columnEdges(ts[1], ts[1].columns) \o synthesizeEdges(Tail(ts))

(* initNodes: table i is placed at { x: 320 + 250 * i, y: 500 } *)
initNodesOf(ts) ==
    [i \in DOMAIN ts |->
        [id |-> ts[i].name, gen |-> 0, x |-> Px(320 + 250 * (i - 1)), y |-> Px(500),
         columns |-> Len(ts[i].columns), width |-> 320, IsIsolated |-> FALSE]]

hasNode(ns, id) == \E i \in DOMAIN ns : ns[i].id = id

RemoveAt(s, i) == SubSeq(s, 1, i - 1) \o SubSeq(s, i + 1, Len(s))

(* The pruning that removes nothing *)
pruneFromNothing(ns, es, i) == es

(* for (i = length - 1; i >= 0; i--) splice the edge with a missing node *)
RECURSIVE pruneFrom(_, _, _)
pruneFrom(ns, es, i) ==
    IF i = 0 THEN es
    ELSE pruneFrom(ns,
                   IF ~hasNode(ns, es[i].source) \/ ~hasNode(ns, es[i].target)
                   THEN RemoveAt(es, i) ELSE es,
                   i - 1)

pruneEdges(ns, es) == pruneFrom(ns, es, Len(es))

(* The key of the edge count map *)
edgeKey(e) ==
    IF StringLess(e.source, e.target)
    THEN e.source \o "|" \o e.target
    ELSE e.target \o "|" \o e.source

(* edgeCountMap.get(key) *)
edgeCount(es, key) == Cardinality({i \in DOMAIN es : edgeKey(es[i]) = key})

keepsEdge(es, e) == edgeCount(es, edgeKey(e)) = 2 \/ edgeCount(es, edgeKey(e)) = 0

filterEdges(es) ==
    LET Keep(e) == keepsEdge(es, e)
    IN SelectSeq(es, Keep)

(* The options object a branch builds: the keys the caller gave, of keys *)
PickOptions(o, keys) == [k \in (DOMAIN o \cap keys) |-> o[k]]

(* linkedNodes and isolatedNodes of the circular branch *)
(* The linked nodes taken to be the sources of edges only *)
linkedNodesBySource(ns, es) ==
    LET Linked(n) == n.id \in {es[i].source : i \in DOMAIN es}
    IN SelectSeq(ns, Linked)

linkedNodes(ns, es) ==
    LET edgeNodeIds == {es[i].source : i \in DOMAIN es} \cup {es[i].target : i \in DOMAIN es}
        Linked(n) == n.id \in edgeNodeIds
    IN SelectSeq(ns, Linked)

circularIsolatedNodes(ns, es) ==
    LET Alone(n) == ~\E i \in DOMAIN es : es[i].source = n.id \/ es[i].target = n.id
    IN SelectSeq(ns, Alone)

(* n.data.isIsolated as the circular branch leaves it *)
WithIsIsolated(ps, isolatedIds) ==
    [i \in DOMAIN ps |->
        [id |-> ps[i].id, gen |-> ps[i].gen, x |-> ps[i].x, y |-> ps[i].y,
         isIsolated |-> ~(\E j \in DOMAIN isolatedIds : isolatedIds[j] = ps[i].id)]]

circularBranchOf(linked, isolated, o) ==
    WithIsIsolated(
        calculateCircularLayout(linked, o)
        \o (IF Len(isolated) > 0
            THEN calculateXLayout(isolated,
                                  [centerY |-> 0, offsetY |-> 0, compact |-> FALSE] @@ o)
            ELSE <<>>),
        Ids(isolated))

circularBranch(ns, es, o) ==
    circularBranchOf(linkedNodes(ns, es), circularIsolatedNodes(ns, es), o)

(* positionedNodes of a layoutConfig [type, options] *)
positionedNodes(cfg, ns, es, rnd) ==
    CASE cfg.type = "linear" -> [i \in DOMAIN ns |-> Same(ns[i])]
      [] cfg.type = "circular" -> circularBranch(ns, es, cfg.options)
      [] cfg.type = "x" ->
            calculateXLayout(ns, PickOptions(cfg.options, {"offset", "centerX"})
                                 @@ [y |-> Opt(cfg.options, "centerY", 0)])
      [] cfg.type = "y" ->
            calculateYLayout(ns, PickOptions(cfg.options, {"offset", "centerY"})
                                 @@ [x |-> Opt(cfg.options, "centerX", 0)])
      [] cfg.type = "box" ->
            calculateBoxLayout(ns, PickOptions(cfg.options,
                                   {"offsetX", "offsetY", "centerX", "centerY", "compact"}))
      [] cfg.type = "hierarchical" -> calculateHierarchicalLayout(ns, es, cfg.options)
      [] cfg.type = "force-directed" -> calculateForceDirectedLayout(ns, es, cfg.options, rnd)

(* The two groups of nodes the layout of cfg works with *)
partitionOf(cfg, ns, es) ==
    CASE cfg.type = "circular" ->
            [isolated |-> Ids(circularIsolatedNodes(ns, es)),
             connected |-> Ids(linkedNodes(ns, es))]
      [] cfg.type = "hierarchical" -> hierarchicalPart(ns, es)
      [] OTHER -> NoPart

--------------------------------------------------------------------------
(* Inputs *)

EdgeSeqs(ids, n) == UNION {[1..k -> {Edge(s, t) : s \in ids, t \in ids}] : k \in 0..n}

NodeList(n) == [i \in 1..n |-> MakeNode(NodeIds[i], 2)]

Unused ==
    /\ memo = NoMemo
    /\ ERTableComp = NotMounted
    /\ kind = ""
    /\ levels = LevelInit
    /\ tables = <<>>
    /\ synthEdges = <<>>
    /\ outEdges = <<>>

--------------------------------------------------------------------------
(* SpecHier: calculateHierarchicalLayout called on a node list and an edge list *)

InitHier ==
    /\ pc = "start"
    /\ \E n \in 0..MaxNodes :
         /\ nodes = NodeList(n)
         /\ edges \in EdgeSeqs(Range(Ids(nodes)), MaxEdges)
    /\ opts = NoOptions
    /\ random = <<>>
    /\ part = NoPart
    /\ out = <<>>
    /\ Unused

HierOptions ==
    {NoOptions,
     [isolatedNodesPerRow |-> 1],
     [isolatedNodesPerRow |-> 3, centerX |-> 400],
     [isolatedNodesPerRow |-> 2, isolatedRowSpacing |-> 0],
     [isolatedNodesPerRow |-> 2, levelSpacing |-> 300, nodeSpacing |-> 100],
     [centerX |-> 0, centerY |-> 0]}

CallHierarchical ==
    /\ pc = "start"
    /\ \E o \in HierOptions :
         /\ opts' = o
         /\ out' = calculateHierarchicalLayout(nodes, edges, o)
    /\ part' = hierarchicalPart(nodes, edges)
    /\ levels' = hierarchicalLevels(nodes, edges)
    /\ pc' = "hierarchical"
    /\ nodes' = inputAfter(nodes, out')
    /\ UNCHANGED <<kind, tables, edges, random, synthEdges, outEdges, memo, ERTableComp>>

NextHier == CallHierarchical

SpecHier == InitHier /\ [][NextHier]_vars

(* SpecGrid: calculateHierarchicalLayout called on a node list of which at  *)
(* most one edge connects two nodes, so that most nodes are isolated        *)

InitGrid ==
    /\ pc = "start"
    /\ \E n \in 0..MaxNodes :
         /\ nodes = NodeList(n)
         /\ edges \in EdgeSeqs(Range(Ids(nodes)), 1)
    /\ opts = NoOptions
    /\ random = <<>>
    /\ part = NoPart
    /\ out = <<>>
    /\ Unused

NextGrid == CallHierarchical

SpecGrid == InitGrid /\ [][NextGrid]_vars

--------------------------------------------------------------------------
(* SpecLevels: calculateHierarchicalLayout on the nodes A, B, C and every   *)
(* list of up to MaxLevelEdges edges between them: chains, joins, parallel  *)
(* edges, self-loops and cycles                                             *)

MaxLevelEdges == 3

LevelNodeIds == SubSeq(NodeIds, 1, 3)

InitLevels ==
    /\ pc = "start"
    /\ \E n \in 0..Len(LevelNodeIds) :
         /\ nodes = NodeList(n)
         /\ edges \in EdgeSeqs(Range(Ids(nodes)), MaxLevelEdges)
    /\ opts = NoOptions
    /\ random = <<>>
    /\ part = NoPart
    /\ out = <<>>
    /\ Unused

NextLevels == CallHierarchical

SpecLevels == InitLevels /\ [][NextLevels]_vars

--------------------------------------------------------------------------
(* SpecStack: calculateYLayout and calculateBoxLayout called on nodes of    *)
(* differing heights                                                        *)

MaxColumns == 2

ColumnLists(n) == [1..n -> 0..MaxColumns]

InitStack ==
    /\ pc = "start"
    /\ \E n \in 0..MaxNodes : \E cols \in ColumnLists(n) :
         nodes = [i \in 1..n |-> MakeNode(NodeIds[i], cols[i])]
    /\ edges = <<>>
    /\ opts = NoOptions
    /\ random = <<>>
    /\ part = NoPart
    /\ out = <<>>
    /\ Unused

YOptions ==
    {NoOptions,
     [centerY |-> 300, offset |-> 20, x |-> 100],
     [offset |-> 0],
     [offset |-> 0 - 60, centerY |-> 0]}

CallYLayout ==
    /\ pc = "start"
    /\ \E o \in YOptions :
         /\ opts' = o
         /\ out' = calculateYLayout(nodes, o)
    /\ pc' = "y"
    /\ nodes' = inputAfter(nodes, out')
    /\ UNCHANGED <<kind, tables, edges, random, synthEdges, part, levels, outEdges, memo, ERTableComp>>

BoxOptions ==
    {NoOptions,
     [offsetX |-> 100, offsetY |-> 50, centerX |-> 400, centerY |-> 300, compact |-> FALSE],
     [offsetX |-> 50, offsetY |-> 20, centerX |-> 400, centerY |-> 300, compact |-> TRUE],
     [offsetY |-> 0, compact |-> FALSE],
     [offsetX |-> 0, offsetY |-> 0, compact |-> TRUE],
     [compact |-> TRUE]}

CallBoxLayout ==
    /\ pc = "start"
    /\ \E o \in BoxOptions :
         /\ opts' = o
         /\ out' = calculateBoxLayout(nodes, o)
    /\ pc' = "box"
    /\ nodes' = inputAfter(nodes, out')
    /\ UNCHANGED <<kind, tables, edges, random, synthEdges, part, levels, outEdges, memo, ERTableComp>>

NextStack == CallYLayout \/ CallBoxLayout

SpecStack == InitStack /\ [][NextStack]_vars

--------------------------------------------------------------------------
(* SpecForce: calculateForceDirectedLayout on up to MaxBodies nodes, every  *)
(* node placed by two draws of Math.random()                                *)

MaxBodies == 3
MaxIterations == 2

(* The draws of Math.random(), in hundredths: 0.25, 0.5, 0.75 *)
RandomX == {25, 50, 75}

RandomY == {50, 75}

InitForce ==
    /\ pc = "start"
    /\ \E n \in 0..MaxBodies :
         /\ nodes = NodeList(n)
         /\ edges \in EdgeSeqs(Range(Ids(nodes)), 1)
    /\ opts = NoOptions
    /\ random = <<>>
    /\ part = NoPart
    /\ out = <<>>
    /\ Unused

ForceOptions ==
    {[iterations |-> k] : k \in 0..MaxIterations} \cup
    {[iterations |-> 1, repulsionMultiplier |-> 2],
     [iterations |-> 1, repulsionForce |-> 0, attractionForce |-> 0, damping |-> 0]}

CallForceDirected ==
    /\ pc = "start"
    /\ \E o \in ForceOptions : \E rnd \in [DOMAIN nodes -> [x : RandomX, y : RandomY]] :
         /\ opts' = o
         /\ random' = rnd
         /\ out' = calculateForceDirectedLayout(nodes, edges, o, rnd)
    /\ pc' = "force"
    /\ nodes' = inputAfter(nodes, out')
    /\ UNCHANGED <<kind, tables, edges, synthEdges, part, levels, outEdges, memo, ERTableComp>>

NextForce == CallForceDirected

SpecForce == InitForce /\ [][NextForce]_vars

--------------------------------------------------------------------------
(* SpecRow: calculateXLayout called on nodes of differing widths *)

(* data.width of a node: 320 as inputDataToNodeAndEdges sets it, or another *)
Widths == {200, 320}

InitRow ==
    /\ pc = "start"
    /\ \E n \in 0..MaxNodes : \E ws \in [1..n -> Widths] :
         nodes = [i \in 1..n |-> [MakeNode(NodeIds[i], 2) EXCEPT !.width = ws[i]]]
    /\ edges = <<>>
    /\ opts = NoOptions
    /\ random = <<>>
    /\ part = NoPart
    /\ out = <<>>
    /\ Unused

--------------------------------------------------------------------------
(* SpecEmpty: every strategy called with the empty node list, with edge     *)
(* lists that name nodes all the same                                       *)

CircularOptions == {NoOptions, [radius |-> 300], [radius |-> 200, centerX |-> 0, centerY |-> 0]}

CallCircularLayout ==
    /\ pc = "start"
    /\ Len(nodes) <= 6
    /\ \E o \in CircularOptions :
         /\ opts' = o
         /\ out' = calculateCircularLayout(nodes, o)
    /\ pc' = "circular"
    /\ nodes' = inputAfter(nodes, out')
    /\ UNCHANGED <<kind, tables, edges, random, synthEdges, part, levels, outEdges, memo, ERTableComp>>

XOptions == {NoOptions, [centerX |-> 0, y |-> 0], [offset |-> 50]}

CallXLayout ==
    /\ pc = "start"
    /\ \E o \in XOptions :
         /\ opts' = o
         /\ out' = calculateXLayout(nodes, o)
    /\ pc' = "x"
    /\ nodes' = inputAfter(nodes, out')
    /\ UNCHANGED <<kind, tables, edges, random, synthEdges, part, levels, outEdges, memo, ERTableComp>>

NextRow == CallXLayout

SpecRow == InitRow /\ [][NextRow]_vars

(* The draws of Math.random() of a force-directed run on n nodes *)
InputDraws(n) ==
    {[i \in 1..n |-> [x |-> 20 + 10 * i, y |-> 50]],
     [i \in 1..n |-> [x |-> 50, y |-> 90 - 10 * i]]}

LayoutRules == {"circular", "hierarchical", "force", "x", "y", "box", "ccrowe"}

RuleOptions ==
    {[iterations |-> 1], [centerX |-> 0, centerY |-> 0, iterations |-> 2, compact |-> TRUE]}

CallPlaceNodesByRule ==
    /\ pc = "start"
    /\ Len(nodes) <= 6
    /\ \E rule \in LayoutRules : \E o \in RuleOptions :
       \E rnd \in InputDraws(Len(nodes)) :
         /\ kind' = rule
         /\ opts' = o
         /\ random' = IF rule = "force" THEN rnd ELSE <<>>
         /\ out' = placeNodesByRule(nodes, edges, rule, o, rnd)
    /\ pc' = "rule"
    /\ nodes' = inputAfter(nodes, out')
    /\ UNCHANGED <<tables, edges, synthEdges, part, levels, outEdges, memo, ERTableComp>>

(* SpecRule: placeNodesByRule on up to MaxRuleNodes nodes, each flagged      *)
(* IsIsolated or not by the caller, with up to MaxRuleEdges edges           *)

MaxRuleNodes == 3
MaxRuleEdges == 1

InitRule ==
    /\ pc = "start"
    /\ \E n \in 0..MaxRuleNodes : \E flags \in [1..n -> BOOLEAN] :
         /\ nodes = [i \in 1..n |-> [MakeNode(NodeIds[i], i % 3) EXCEPT !.IsIsolated = flags[i]]]
         /\ edges \in EdgeSeqs(Range(Ids(nodes)), MaxRuleEdges)
    /\ opts = NoOptions
    /\ random = <<>>
    /\ part = NoPart
    /\ out = <<>>
    /\ Unused

NextRule == CallPlaceNodesByRule

SpecRule == InitRule /\ [][NextRule]_vars

(* SpecCircle: calculateCircularLayout called on up to MaxNodes nodes *)

NextCircle == CallCircularLayout

SpecCircle == InitStack /\ [][NextCircle]_vars

(* SpecFrame: each layout function called once on a non-empty list of       *)
(* nodes that have positions already; the force-directed layout is called   *)
(* by placeNodesByRule, on the whole list since no node is IsIsolated       *)

MaxFrameNodes == 2

InitFrame ==
    /\ pc = "start"
    /\ \E n \in 1..MaxFrameNodes :
         /\ nodes = [i \in 1..n |-> [MakeNode(NodeIds[i], i % 3) EXCEPT
                                         !.x = Px(100 * i), !.y = Px(50)]]
         /\ edges \in EdgeSeqs(Range(Ids(nodes)), 1)
    /\ opts = NoOptions
    /\ random = <<>>
    /\ part = NoPart
    /\ out = <<>>
    /\ Unused

NextFrame ==
    \/ CallHierarchical
    \/ CallCircularLayout
    \/ CallXLayout
    \/ CallYLayout
    \/ CallBoxLayout
    \/ CallPlaceNodesByRule

SpecFrame == InitFrame /\ [][NextFrame]_vars

(* SpecRepeat: the caller calls the layout functions again and again on the *)
(* same node list, edge list and options, and remembers one result          *)

DeterministicCalls == {"hierarchical", "circular", "x", "y", "box"}

MaxRepeatNodes == 2

InitRepeat ==
    /\ pc = "start"
    /\ \E n \in 1..MaxRepeatNodes :
         /\ nodes = [i \in 1..n |-> [MakeNode(NodeIds[i], i % 3) EXCEPT
                                         !.x = Px(100 * i), !.y = Px(50)]]
         /\ edges \in EdgeSeqs(Range(Ids(nodes)), 1)
    /\ opts = NoOptions
    /\ random = <<>>
    /\ part = NoPart
    /\ out = <<>>
    /\ Unused

(* The call has returned: its locals are gone, the caller may keep its     *)
(* result, and the caller's node and edge lists are what they are           *)
Return ==
    /\ pc # "start"
    /\ pc' = "start"
    /\ \/ memo' = memo
       \/ /\ memo = NoMemo
          /\ pc \in DeterministicCalls
          /\ memo' = [fn |-> pc, opts |-> opts, out |-> out]
    /\ opts' = NoOptions
    /\ random' = <<>>
    /\ part' = NoPart
    /\ levels' = LevelInit
    /\ out' = <<>>
    /\ UNCHANGED <<kind, tables, nodes, edges, synthEdges, outEdges, ERTableComp>>

NextRepeat ==
    \/ CallHierarchical
    \/ CallCircularLayout
    \/ CallXLayout
    \/ CallYLayout
    \/ CallBoxLayout
    \/ CallPlaceNodesByRule
    \/ Return

SpecRepeat == InitRepeat /\ [][NextRepeat]_vars

InitEmpty ==
    /\ pc = "start"
    /\ nodes = <<>>
    /\ edges \in EdgeSeqs({NodeIds[1], NodeIds[2]}, MaxEdges)
    /\ opts = NoOptions
    /\ random = <<>>
    /\ part = NoPart
    /\ out = <<>>
    /\ Unused

NextEmpty ==
    \/ CallHierarchical
    \/ CallCircularLayout
    \/ CallForceDirected
    \/ CallXLayout
    \/ CallYLayout
    \/ CallBoxLayout
    \/ CallPlaceNodesByRule

SpecEmpty == InitEmpty /\ [][NextEmpty]_vars

--------------------------------------------------------------------------
(* SpecInput: inputDataToNodeAndEdges on a prefix of TableNames whose       *)
(* tables hold at most MaxTableColumns columns in all; a column has no      *)
(* foreignTo or refers to one of ForeignNames, a table of the list or not   *)

MaxTableColumns == 3

(* The table names a foreignTo refers to *)
ForeignNames == {"B|C", "A", "C"}

(* What a column is: "" for a column without foreignTo *)
ColumnKinds == {""} \cup ForeignNames

(* The owners of c columns among t tables, table by table *)
Owners(c, t) == {f \in [1..c -> 1..t] : \A k \in 1..(c - 1) : f[k] <= f[k + 1]}

(* Table i of the list: the columns f gives it, named c1, c2, ... *)
MakeTable(i, owners, kinds) ==
    LET Mine(k) == owners[k] = i
        mine == SelectSeq([k \in DOMAIN owners |-> k], Mine)
    IN [name |-> TableNames[i],
        columns |-> [j \in DOMAIN mine |->
                        IF kinds[mine[j]] = ""
                        THEN PlainColumn("c" \o ToString(j))
                        ELSE ForeignColumn("c" \o ToString(j), kinds[mine[j]])]]

InitInput ==
    /\ pc = "start"
    /\ kind = ""
    /\ \E t \in 0..Len(TableNames) : \E c \in 0..MaxTableColumns :
       \E owners \in Owners(c, t) : \E kinds \in [1..c -> ColumnKinds] :
         tables = [i \in 1..t |-> MakeTable(i, owners, kinds)]
    /\ nodes = <<>>
    /\ edges = <<>>
    /\ opts = NoOptions
    /\ random = <<>>
    /\ synthEdges = <<>>
    /\ part = NoPart
    /\ levels = LevelInit
    /\ out = <<>>
    /\ outEdges = <<>>
    /\ memo = NoMemo
    /\ ERTableComp = NotMounted

LayoutConfigs ==
    {[type |-> "linear", options |-> NoOptions],
     [type |-> "circular", options |-> [radius |-> 300, centerX |-> 400, centerY |-> 300]],
     [type |-> "circular", options |-> [radius |-> 900]],
     [type |-> "hierarchical", options |-> [isolatedNodesPerRow |-> 2]],
     [type |-> "force-directed", options |-> [iterations |-> 1]],
     [type |-> "x", options |-> [offset |-> 50, centerY |-> 100]],
     [type |-> "y", options |-> NoOptions],
     [type |-> "box", options |-> [offsetX |-> 50, offsetY |-> 20, compact |-> TRUE]]}

(* inputDataToNodeAndEdges(ts, cfg), Math.random() returning rnd *)
inputDataToNodeAndEdges(ts, cfg, rnd) ==
    /\ kind' = cfg.type
    /\ opts' = cfg.options
    /\ random' = rnd
    /\ nodes' = initNodesOf(ts)
    /\ synthEdges' = synthesizeEdges(ts)
    /\ edges' = pruneEdges(nodes', synthEdges')
    /\ part' = partitionOf(cfg, nodes', edges')
    /\ levels' = IF cfg.type = "hierarchical"
                  THEN hierarchicalLevels(nodes', edges') ELSE LevelInit
    /\ out' = positionedNodes(cfg, nodes', edges', rnd)
    /\ outEdges' = filterEdges(edges')
    /\ pc' = "inputData"

InputDataToNodeAndEdges ==
    /\ pc = "start"
    /\ \E cfg \in LayoutConfigs :
       \E rnd \in IF cfg.type = "force-directed" THEN InputDraws(Len(tables)) ELSE {<<>>} :
         inputDataToNodeAndEdges(tables, cfg, rnd)
    /\ UNCHANGED <<tables, memo, ERTableComp>>

NextInput == InputDataToNodeAndEdges

SpecInput == InitInput /\ [][NextInput]_vars

--------------------------------------------------------------------------
(* SpecComp: the render cycle of ERTableComp.  The component is rendered    *)
(* when a render is scheduled; the render decides which effects run; the    *)
(* effects call inputDataToNodeAndEdges and set the nodes and edges state,  *)
(* which schedules a render.  The user changes the layout type or the       *)
(* circular radius, the parent passes another table array, at most          *)
(* MaxInputChanges times in all.  No node is highlighted and the layout     *)
(* type is never force-directed.                                            *)

MaxInputChanges == 2
MaxCompTables == 3

(* The table arrays the parent passes: the first table has one column,      *)
(* plain or a foreign key to table C                                        *)
TableArrays ==
    {[i \in 1..t |-> MakeTable(i, <<1>>, <<k>>)] : t \in 1..MaxCompTables, k \in {"", "C"}}

LayoutTypes == {"linear", "circular", "hierarchical", "x", "y", "box"}

Radii == {500, 300}

(* The object literal of lines 155-172 *)
layoutOptions(circularRadius) ==
    [radius |-> circularRadius, repulsionForce |-> 1000, repulsionMultiplier |-> 1,
     attractionForce |-> 10, iterations |-> 50, centerX |-> 400, centerY |-> 300,
     damping |-> 90, minDistance |-> 150, nodeSpacing |-> 200, levelSpacing |-> 150,
     offset |-> 200, offsetX |-> 200, offsetY |-> 150, compact |-> TRUE]

(* The dependencies of a hook that has not run yet *)
NoDeps == <<>>

(* The layoutOptions object of a render: a new object, not the one of the   *)
(* render before                                                            *)
layoutOptionsOfRender(c) == 1 - c.layoutOptions

InitComp ==
    /\ pc = "start"
    /\ kind = ""
    /\ tables \in TableArrays
    /\ nodes = <<>>
    /\ edges = <<>>
    /\ opts = NoOptions
    /\ random = <<>>
    /\ synthEdges = <<>>
    /\ part = NoPart
    /\ levels = LevelInit
    /\ out = <<>>
    /\ outEdges = <<>>
    /\ memo = NoMemo
    /\ ERTableComp = [mounted |-> TRUE, layoutType |-> "linear", circularRadius |-> 500,
                      layoutOptions |-> 0, callbackDeps |-> NoDeps, effectDeps |-> NoDeps,
                      render |-> TRUE, effects |-> {}, shouldFitOnUpdate |-> FALSE,
                      computedFor |-> NoDeps, changes |-> 0]

(* The values a layout is computed from *)
layoutInputs(ts, c) == <<ts, c.layoutType, c.circularRadius>>

(* A render: layoutOptions is built (lines 155-172), computeAndApplyLayout  *)
(* is kept or made anew by its dependencies (lines 281-299), and the        *)
(* effects of lines 302-304 and 326-330 are scheduled when theirs changed   *)
Render ==
    /\ ERTableComp.render
    /\ ERTableComp.effects = {}
    /\ LET c == ERTableComp
           options == layoutOptionsOfRender(c)
           callbackDeps == layoutInputs(tables, c)
           effectDeps == <<tables, c.layoutType, options>>
       IN ERTableComp' =
            [c EXCEPT !.layoutOptions = options,
                      !.callbackDeps = callbackDeps,
                      !.effectDeps = effectDeps,
                      !.render = FALSE,
                      !.effects =
                          (IF c.callbackDeps # callbackDeps
                           THEN {"computeAndApplyLayout"} ELSE {})
                          \cup (IF c.effectDeps # effectDeps THEN {"recalculate"} ELSE {})]
    /\ UNCHANGED <<pc, kind, tables, nodes, edges, opts, random, synthEdges, part, levels, out,
                   outEdges, memo>>

(* The scheduled effects run: each calls inputDataToNodeAndEdges with the   *)
(* table array, the layout type and the layoutOptions of the render that    *)
(* scheduled it, and sets the nodes and edges state to the new arrays,      *)
(* which schedules a render                                                 *)
RunEffects ==
    /\ ERTableComp.effects # {}
    /\ LET rendered == ERTableComp.callbackDeps
       IN inputDataToNodeAndEdges(rendered[1],
                                  [type |-> rendered[2],
                                   options |-> layoutOptions(rendered[3])], <<>>)
    /\ ERTableComp' =
         [ERTableComp EXCEPT
             !.effects = {},
             !.render = TRUE,
             !.shouldFitOnUpdate = @ \/ "computeAndApplyLayout" \in ERTableComp.effects,
             !.computedFor = ERTableComp.callbackDeps]
    /\ UNCHANGED <<tables, memo>>

(* The Select of lines 477-482 *)
SetLayoutType ==
    /\ ERTableComp.changes < MaxInputChanges
    /\ \E value \in LayoutTypes \ {ERTableComp.layoutType} :
         ERTableComp' = [ERTableComp EXCEPT !.layoutType = value,
                                            !.shouldFitOnUpdate = TRUE,
                                            !.render = TRUE,
                                            !.changes = @ + 1]
    /\ UNCHANGED <<pc, kind, tables, nodes, edges, opts, random, synthEdges, part, levels, out,
                   outEdges, memo>>

(* The Slider of line 572 *)
SetCircularRadius ==
    /\ ERTableComp.changes < MaxInputChanges
    /\ \E value \in Radii \ {ERTableComp.circularRadius} :
         ERTableComp' = [ERTableComp EXCEPT !.circularRadius = value,
                                            !.render = TRUE,
                                            !.changes = @ + 1]
    /\ UNCHANGED <<pc, kind, tables, nodes, edges, opts, random, synthEdges, part, levels, out,
                   outEdges, memo>>

(* The parent renders the component with another tableArray *)
SetTableArray ==
    /\ ERTableComp.changes < MaxInputChanges
    /\ tables' \in TableArrays \ {tables}
    /\ ERTableComp' = [ERTableComp EXCEPT !.render = TRUE, !.changes = @ + 1]
    /\ UNCHANGED <<pc, kind, nodes, edges, opts, random, synthEdges, part, levels, out,
                   outEdges, memo>>

NextComp ==
    \/ Render
    \/ RunEffects
    \/ SetLayoutType
    \/ SetCircularRadius
    \/ SetTableArray

(* A scheduled render is rendered and scheduled effects are run *)
SpecComp == InitComp /\ [][NextComp]_vars /\ WF_vars(Render) /\ WF_vars(RunEffects)

--------------------------------------------------------------------------
(* Claims about calculateHierarchicalLayout *)

OutOf(id) == out[FindIndex(out, id)]

(* C1: whenever calculateHierarchicalLayout has run with isolatedNodesPerRow *)
(* >= 1 on a graph with at least one isolated and one connected node, every *)
(* isolated node's y is strictly less than every connected node's y.        *)
C1_IsolatedAboveConnected ==
    (pc = "hierarchical" /\ isolatedNodesPerRow(opts) >= 1) =>
        \A i \in DOMAIN part.isolated : \A c \in DOMAIN part.connected :
            OutOf(part.isolated[i]).y < OutOf(part.connected[c]).y

--------------------------------------------------------------------------
(* Claims about calculateYLayout *)

(* C2: after calculateYLayout on a non-empty node sequence, whatever the    *)
(* offset (negative ones included), the y-coordinates are strictly          *)
(* increasing in input order and y[i+1] - y[i] >= height(node i) + offset,  *)
(* with height = 47 + 28 * columns.                                         *)
C2_YStrictlyIncreasing ==
    (pc = "y" /\ Len(nodes) > 0) =>
        \A i \in 1..(Len(out) - 1) :
            /\ out[i].y < out[i + 1].y
            /\ out[i + 1].y - out[i].y
                 >= Px((47 + 28 * nodes[i].columns) + Opt(opts, "offset", 200))

(* C2's case: three nodes of differing heights stacked with a negative offset *)
C2_Witness ==
    /\ pc = "y"
    /\ Len(out) >= 3
    /\ Opt(opts, "offset", 200) < 0
    /\ nodes[1].columns # nodes[2].columns
    /\ out[2].y - out[1].y = Px(47 + 28 * nodes[1].columns)

--------------------------------------------------------------------------
(* Claims about calculateBoxLayout *)

BoxCols == CeilSqrt(Len(nodes))

BoxRowOf(i) == (i - 1) \div BoxCols

TallestInRow(r) ==
    CHOOSE h \in {nodeHeight(nodes[k]) : k \in {k \in DOMAIN nodes : BoxRowOf(k) = r}} :
        \A k \in DOMAIN nodes : BoxRowOf(k) = r => nodeHeight(nodes[k]) <= h

(* C3: calculateBoxLayout with compact = false gives all nodes of one grid  *)
(* row the same y, and the y of row r+1 is at least the y of row r plus the *)
(* height of the tallest node of row r plus offsetY.                        *)
C3_BoxRowsDoNotOverlap ==
    (pc = "box" /\ ~Opt(opts, "compact", FALSE)) =>
        \A i \in DOMAIN out : \A j \in DOMAIN out :
            /\ BoxRowOf(i) = BoxRowOf(j) => out[i].y = out[j].y
            /\ BoxRowOf(j) = BoxRowOf(i) + 1 =>
                 out[j].y >= out[i].y
                             + Px(TallestInRow(BoxRowOf(i)) + Opt(opts, "offsetY", 150))

(* C3's case: two rows, the first row's tallest node is not its first node *)
C3_Witness ==
    /\ pc = "box"
    /\ ~Opt(opts, "compact", FALSE)
    /\ Len(out) >= 3
    /\ nodeHeight(nodes[1]) < nodeHeight(nodes[2])
    /\ out[1].y = out[2].y
    /\ out[3].y = out[1].y + Px(nodeHeight(nodes[2]) + Opt(opts, "offsetY", 150))

(* C4: calculateBoxLayout with compact = true stacks by column: the node    *)
(* j = i + cols below node i has y[j] = y[i] + height(i) + offsetY,         *)
(* whatever the heights of the other nodes of i's row.                      *)
C4_CompactStacksByColumn ==
    (pc = "box" /\ Opt(opts, "compact", FALSE)) =>
        \A i \in DOMAIN out :
            (i + BoxCols) \in DOMAIN out =>
                out[i + BoxCols].y
                  = out[i].y + Px(nodeHeight(nodes[i]) + Opt(opts, "offsetY", 150))

(* C4's case: node 1 has a taller neighbour in its row and a node below it *)
C4_Witness ==
    /\ pc = "box"
    /\ Opt(opts, "compact", FALSE)
    /\ Len(out) >= 3
    /\ nodeHeight(nodes[1]) < nodeHeight(nodes[2])
    /\ out[1 + BoxCols].y < out[1].y + Px(nodeHeight(nodes[2]) + Opt(opts, "offsetY", 150))

--------------------------------------------------------------------------
(* Claims about calculateForceDirectedLayout *)

Abs(v) == IF v < 0 THEN 0 - v ELSE v

(* Two returned nodes are at least d (1/100 pixel) apart *)
Apart(p, q, d) ==
    \/ Abs(p.x - q.x) >= d
    \/ Abs(p.y - q.y) >= d
    \/ (p.x - q.x) * (p.x - q.x) + (p.y - q.y) * (p.y - q.y) >= d * d

(* No two nodes were placed on the same point by the draws *)
DistinctStart == \A i \in DOMAIN random : \A j \in DOMAIN random : i # j => random[i] # random[j]

(* C5: after calculateForceDirectedLayout has run its iterations (>= 1), no *)
(* two distinct returned nodes are closer than minDistance *                *)
(* repulsionMultiplier.  Stated with half a pixel of tolerance for the      *)
(* rounding of the arithmetic, and for the starts that put no two nodes on  *)
(* one point, so that a violation is owed to neither.                       *)
C5_NoTwoCloserThanMinDistance ==
    (pc = "force" /\ Opt(opts, "iterations", 50) >= 1 /\ DistinctStart) =>
        \A i \in DOMAIN out : \A j \in DOMAIN out :
            i # j => Apart(out[i], out[j], effectiveMinDist(opts) - 50)

--------------------------------------------------------------------------
(* Claims about the empty node list *)

(* C6: every layout strategy, and placeNodesByRule under every rule, called *)
(* with an empty node list returns an empty node list, whatever the edge    *)
(* list and the options.                                                    *)
C6_EmptyInEmptyOut ==
    (pc # "start" /\ nodes = <<>>) => out = <<>>

(* C6's case: a strategy and the dispatcher have run on no nodes and two edges *)
C6_Witness ==
    /\ nodes = <<>>
    /\ Len(edges) = 2
    /\ pc = "rule"
    /\ kind = "circular"
    /\ out = <<>>

--------------------------------------------------------------------------
(* Claims about inputDataToNodeAndEdges *)

InOut(id) == \E k \in DOMAIN out : out[k].id = id

IsTable(name) == \E i \in DOMAIN tables : tables[i].name = name

(* C7: after inputDataToNodeAndEdges every returned edge has its source and *)
(* its target among the ids of the returned nodes, so a foreign key to a    *)
(* table that is not in the list gives no returned edge, and the call       *)
(* returns.                                                                 *)
C7_ReturnedEdgesJoinReturnedNodes ==
    pc = "inputData" =>
        /\ \A i \in DOMAIN outEdges : InOut(outEdges[i].source) /\ InOut(outEdges[i].target)
        /\ \A i \in DOMAIN outEdges : IsTable(outEdges[i].source)
        /\ Len(out) = Len(tables)

(* C7's case: a foreign key names a missing table, and edges are returned *)
C7_Witness ==
    /\ pc = "inputData"
    /\ \E i \in DOMAIN synthEdges : ~IsTable(synthEdges[i].source)
    /\ outEdges # <<>>

(* The columns with foreignTo, as <<table index, column index>> *)
ForeignKeys ==
    UNION {{<<i, j>> : j \in {j \in DOMAIN tables[i].columns :
                                  hasForeignTo(tables[i].columns[j])}} :
           i \in DOMAIN tables}

(* Entity order, then column order *)
Before(p, q) == p[1] < q[1] \/ (p[1] = q[1] /\ p[2] < q[2])

RankOf(p) == 1 + Cardinality({q \in ForeignKeys : Before(q, p)})

(* C8: the synthesized edges are one per column with foreignTo, in entity   *)
(* order then column order, each with source = foreignTo.name and target =  *)
(* the name of the table that owns the column; other columns give no edge.  *)
C8_OneEdgePerForeignKeyColumn ==
    pc = "inputData" =>
        /\ Len(synthEdges) = Cardinality(ForeignKeys)
        /\ \A p \in ForeignKeys :
             /\ synthEdges[RankOf(p)].source = tables[p[1]].columns[p[2]].foreignTo.name
             /\ synthEdges[RankOf(p)].target = tables[p[1]].name
             /\ synthEdges[RankOf(p)].col = tables[p[1]].columns[p[2]].name

(* C8's case: two tables own foreign keys, one of them after a plain column *)
C8_Witness ==
    /\ pc = "inputData"
    /\ \E p \in ForeignKeys : \E q \in ForeignKeys :
         /\ p[1] < q[1]
         /\ q[2] > 1
         /\ ~hasForeignTo(tables[q[1]].columns[1])
         /\ tables[p[1]].columns[p[2]].foreignTo.name # tables[p[1]].name

SamePair(e, f) == {e.source, e.target} = {f.source, f.target}

PairCount(e) == Cardinality({i \in DOMAIN synthEdges : SamePair(synthEdges[i], e)})

NonDangling(e) == IsTable(e.source) /\ IsTable(e.target)

KeptByPair(e) == NonDangling(e) /\ PairCount(e) = 2

(* C9: the returned edges are exactly the non-dangling synthesized edges    *)
(* whose unordered {source, target} pair is the pair of exactly two         *)
(* synthesized edges.                                                       *)
C9_ReturnedEdgesArePairedTwice ==
    pc = "inputData" => outEdges = SelectSeq(synthEdges, KeptByPair)

InSeq(s, v) == \E i \in DOMAIN s : s[i] = v

Touched(id) == \E j \in DOMAIN edges : edges[j].source = id \/ edges[j].target = id

(* C10: in calculateHierarchicalLayout and in the circular branch of        *)
(* inputDataToNodeAndEdges a node is in the isolated group iff no edge      *)
(* given to the layout has it as source or target, in the connected group   *)
(* iff some edge has, and so in exactly one of the two.                     *)
C10_PartitionIsExact ==
    (pc = "hierarchical" \/ (pc = "inputData" /\ kind \in {"circular", "hierarchical"})) =>
        /\ \A i \in DOMAIN nodes :
             /\ InSeq(part.isolated, nodes[i].id) <=> ~Touched(nodes[i].id)
             /\ InSeq(part.connected, nodes[i].id) <=> Touched(nodes[i].id)
        /\ Len(part.isolated) + Len(part.connected) = Len(nodes)

(* C10's case: the hierarchical branch with a node whose only edge is its   *)
(* own foreign key to itself, and an isolated node                          *)
C10_Witness ==
    /\ pc = "inputData"
    /\ kind = "hierarchical"
    /\ part.isolated # <<>>
    /\ \E i \in DOMAIN nodes :
         /\ InSeq(part.connected, nodes[i].id)
         /\ \A j \in DOMAIN edges :
              (edges[j].source = nodes[i].id \/ edges[j].target = nodes[i].id)
              => edges[j].source = edges[j].target

--------------------------------------------------------------------------
(* Claims about the levels of calculateHierarchicalLayout *)

(* The transitive closure of the edges, as pairs <<u, v>> with a path u ~> v *)
RECURSIVE ReachFrom(_, _)
ReachFrom(pairs, k) ==
    IF k = 0 THEN pairs
    ELSE ReachFrom(pairs \cup {<<r[1][1], r[2][2]>> :
                                   r \in {r \in pairs \X pairs : r[1][2] = r[2][1]}},
                   k - 1)

EdgePairs == {<<edges[i].source, edges[i].target>> : i \in DOMAIN edges}

Acyclic == \A p \in ReachFrom(EdgePairs, Len(edges)) : p[1] # p[2]

Preds(id) == {edges[i].source : i \in {j \in DOMAIN edges : edges[j].target = id}}

LevelAt(id) == levels.connectedLevels[id]

(* C11: for an acyclic edge list, a connected node without incoming edge    *)
(* has level 0, any other has 1 + the greatest level of its direct          *)
(* predecessors, and so every edge u -> v has level(v) > level(u).          *)
C11_LevelIsLongestPath ==
    (pc = "hierarchical" /\ Acyclic) =>
        /\ \A i \in DOMAIN part.connected :
             LET id == part.connected[i]
             IN /\ id \in DOMAIN levels.connectedLevels
                /\ Preds(id) = {} => LevelAt(id) = 0
                /\ Preds(id) # {} =>
                     /\ \E u \in Preds(id) : LevelAt(id) = LevelAt(u) + 1
                     /\ \A u \in Preds(id) : LevelAt(id) >= LevelAt(u) + 1
        /\ \A j \in DOMAIN edges : LevelAt(edges[j].target) > LevelAt(edges[j].source)

(* C11's case: a node whose two predecessors have different levels *)
C11_Witness ==
    /\ pc = "hierarchical"
    /\ Acyclic
    /\ \E i \in DOMAIN part.connected :
         \E u \in Preds(part.connected[i]) : \E v \in Preds(part.connected[i]) :
            /\ LevelAt(u) = 0
            /\ LevelAt(v) = 1
            /\ LevelAt(part.connected[i]) = 2

NoDuplicates(s) == \A i \in DOMAIN s : \A j \in DOMAIN s : s[i] = s[j] => i = j

(* C12: for every edge list, cycles, self-loops and parallel edges          *)
(* included, the level assignment ends with each id resolved at most once   *)
(* and entered at most once, every connected node at an integer level      *)
(* >= 0, and the visiting set empty.                                        *)
C12_LevelAssignmentTerminates ==
    pc = "hierarchical" =>
        /\ NoDuplicates(levels.resolved)
        /\ NoDuplicates(levels.entered)
        /\ Range(levels.resolved) = levels.visited
        /\ levels.visiting = {}
        /\ \A i \in DOMAIN part.connected :
             /\ part.connected[i] \in levels.visited
             /\ part.connected[i] \in DOMAIN levels.connectedLevels
             /\ LevelAt(part.connected[i]) \in Nat

(* C12's case: a cycle through three nodes has been levelled *)
C12_Witness ==
    /\ pc = "hierarchical"
    /\ Len(part.connected) = 3
    /\ Len(edges) = 3
    /\ \A i \in DOMAIN edges : edges[i].source # edges[i].target
    /\ \A id \in Range(part.connected) : <<id, id>> \in ReachFrom(EdgePairs, Len(edges))
    /\ levels.visiting = {}

OutRow(id) == out[CHOOSE k \in DOMAIN out : out[k].id = id]

(* C13: a node reached again while it is being resolved ends at level 0,    *)
(* on the row y = 200.                                                      *)
C13_RevisitedNodeIsAtLevelZero ==
    pc = "hierarchical" =>
        \A id \in levels.revisited :
            /\ LevelAt(id) = 0
            /\ OutRow(id).y = Px(connectedStartY)

--------------------------------------------------------------------------
(* Claims about the circular mode of inputDataToNodeAndEdges *)

(* The y of the topmost point of the circle of the linked nodes *)
CircleTop == Px(Opt(opts, "centerY", 300)) - Px(Opt(opts, "radius", 100))

(* C14: in the circular mode, for every radius and centerY, every isolated  *)
(* node has y strictly less than centerY - radius.                          *)
C14_IsolatedAboveCircle ==
    (pc = "inputData" /\ kind = "circular") =>
        \A i \in DOMAIN part.isolated : OutRow(part.isolated[i]).y < CircleTop

--------------------------------------------------------------------------
(* Claims about calculateXLayout *)

C16_RowCenteredOnCenterX ==
    (pc = "x" /\ Len(out) > 0) =>
        out[1].x + out[Len(out)].x = 2 * Px(Opt(opts, "centerX", 400))

--------------------------------------------------------------------------
(* Claims about the centre of calculateYLayout *)

(* C17: every node has x = the x option, the stack spans the sum of the     *)
(* node heights plus max(0, offset) between neighbours, and it is centred   *)
(* on centerY: y[0] + (y[last] + height(last)) = 2 * centerY.               *)
C17_StackCenteredOnCenterY ==
    (pc = "y" /\ Len(out) > 0) =>
        LET last == Len(out)
            bottom == out[last].y + Px(nodeHeight(nodes[last]))
        IN /\ \A i \in DOMAIN out : out[i].x = Px(Opt(opts, "x", 0))
           /\ out[1].y + bottom = 2 * Px(Opt(opts, "centerY", 300))
           /\ bottom - out[1].y
              = Px(SeqSum([i \in DOMAIN nodes |-> 47 + 28 * nodes[i].columns])
                   + Max(0, Opt(opts, "offset", 200)) * (last - 1))

(* C17's case: three nodes of differing heights, a gap and an x are given *)
C17_Witness ==
    /\ pc = "y"
    /\ Len(out) >= 3
    /\ nodes[1].columns # nodes[2].columns
    /\ "offset" \in DOMAIN opts
    /\ opts.offset > 0
    /\ "x" \in DOMAIN opts
    /\ opts.x # 0

--------------------------------------------------------------------------
(* Claims about placeNodesByRule *)

IsolatedHalf == SelectSeq(nodes, IsIsolatedNode)

OtherHalf == SelectSeq(nodes, NotIsolatedNode)

(* The draws of a call: those of the force rule, none for another rule *)
RuleDraws == IF kind = "force" THEN random ELSE [i \in DOMAIN nodes |-> [x |-> 50, y |-> 50]]

(* The strategy of the rule run on the isolated half without edges, and on  *)
(* the other half with the edges                                            *)
IsolatedLayout ==
    layoutFn(kind, IsolatedHalf, <<>>, opts, SubSeq(RuleDraws, 1, Len(IsolatedHalf)))

OtherLayout ==
    layoutFn(kind, OtherHalf, edges, opts,
             SubSeq(RuleDraws, Len(IsolatedHalf) + 1, Len(nodes)))

(* C18: placeNodesByRule returns as many nodes as it was given, with the    *)
(* same id at every index, each at the position the strategy of the rule    *)
(* gives it when run on its own half: the isolated half with no edges, the  *)
(* other half with the edges.                                               *)
C18_RecombinedInCallerOrder ==
    pc = "rule" =>
        /\ Len(out) = Len(nodes)
        /\ \A i \in DOMAIN nodes :
             /\ out[i].id = nodes[i].id
             /\ IF nodes[i].IsIsolated
                THEN out[i] = IsolatedLayout[FindIndex(IsolatedHalf, nodes[i].id)]
                ELSE out[i] = OtherLayout[FindIndex(OtherHalf, nodes[i].id)]

(* C18's case: an isolated node between two others that an edge joins *)
C18_Witness ==
    /\ pc = "rule"
    /\ kind = "hierarchical"
    /\ Len(nodes) = 3
    /\ ~nodes[1].IsIsolated
    /\ nodes[2].IsIsolated
    /\ ~nodes[3].IsIsolated
    /\ \E j \in DOMAIN edges : edges[j].source = nodes[1].id /\ edges[j].target = nodes[3].id

--------------------------------------------------------------------------
(* Claims about the layout functions as functions *)

IsObjectOf(ns, r) == \E j \in DOMAIN ns : ns[j].id = r.id /\ ns[j].gen = r.gen

(* C19: a call of a layout function on a non-empty node list leaves the     *)
(* list as it was, every node at its original position and with its        *)
(* original fields, and returns as many nodes, none of them an object of    *)
(* the list.                                                                *)
C19_InputNotMutated ==
    [][(pc = "start" /\ Len(nodes) > 0) =>
          /\ nodes' = nodes
          /\ Len(out') = Len(nodes)
          /\ \A i \in DOMAIN out' : ~IsObjectOf(nodes, out'[i])]_vars

(* C19's case: the force-directed layout has moved two positioned nodes *)
C19_Witness ==
    /\ pc = "rule"
    /\ kind = "force"
    /\ Len(nodes) = 2
    /\ \A i \in DOMAIN nodes :
         /\ nodes[i].x = Px(100 * i)
         /\ out[i].id = nodes[i].id
         /\ out[i].x # nodes[i].x

--------------------------------------------------------------------------
(* Claims about the circle *)

CircleCenterX == Px(Opt(opts, "centerX", 400))

CircleCenterY == Px(Opt(opts, "centerY", 300))

CircleRadius == Opt(opts, "radius", 100)

(* 2 * sin(pi / n) in 1/10000: the chord of the step 2 * pi / n on the unit circle *)
UnitChord(n) ==
    CASE n = 2 -> 20000
      [] n = 3 -> 17321
      [] n = 4 -> 14142
      [] n = 5 -> 11756
      [] n = 6 -> 10000

(* The length of (dx, dy), given in hundredths of a pixel, in tenths *)
Tenths(dx, dy) == Sqrt((dx \div 10) * (dx \div 10) + (dy \div 10) * (dy \div 10))

(* Two lengths in tenths of a pixel that differ by at most 0.2 px *)
Near(a, b) == Abs(a - b) <= 2

(* C21: the circular layout puts every node at distance radius from the    *)
(* center, node 0 at the top, and each node 2 * pi / n further round the    *)
(* circle than the one before it, the first following the last, so that     *)
(* the n nodes are at n distinct places.                                    *)
C21_EvenlyOnTheCircle ==
    (pc = "circular" /\ Len(out) > 0) =>
        LET n == Len(out)
        IN /\ \A i \in 1..n :
                Near(Tenths(out[i].x - CircleCenterX, out[i].y - CircleCenterY),
                     10 * CircleRadius)
           /\ out[1].x = CircleCenterX
           /\ out[1].y = CircleCenterY - Px(CircleRadius)
           /\ \A i \in 1..n :
                n > 1 =>
                    LET next == out[(i % n) + 1]
                    IN Near(Tenths(next.x - out[i].x, next.y - out[i].y),
                            Div(CircleRadius * UnitChord(n), 1000))
           /\ \A i \in 1..n : \A j \in 1..n :
                i # j => (out[i].x # out[j].x \/ out[i].y # out[j].y)

(* C21's case: five nodes on the circle of radius 300 *)
C21_Witness ==
    /\ pc = "circular"
    /\ Len(out) = 5
    /\ CircleRadius = 300
    /\ out[3].y > CircleCenterY

--------------------------------------------------------------------------
(* Claims about the rows of calculateHierarchicalLayout *)

(* The places in part.connected of the nodes of the level of its i-th node *)
LevelRow(i) ==
    {j \in DOMAIN part.connected :
        LevelAt(part.connected[j]) = LevelAt(part.connected[i])}

WithoutCenterY == [k \in DOMAIN opts \ {"centerY"} |-> opts[k]]

(* C22: the k-th of the m connected nodes of level L, in input order, is at *)
(* x = centerX - (m - 1) * nodeSpacing / 2 + k * nodeSpacing and             *)
(* y = 200 + L * levelSpacing, and the result is the one the same call       *)
(* without the centerY option gives.                                         *)
C22_LevelRowCenteredOnCenterX ==
    pc = "hierarchical" =>
        /\ \A i \in DOMAIN part.connected :
             LET m == Cardinality(LevelRow(i))
                 k == Cardinality({j \in LevelRow(i) : j < i})
                 at == OutOf(part.connected[i])
             IN /\ at.x = Px(Opt(opts, "centerX", 400))
                            - ((m - 1) * Px(nodeSpacing(opts))) \div 2
                            + k * Px(nodeSpacing(opts))
                /\ at.y = Px(200) + LevelAt(part.connected[i]) * Px(levelSpacing(opts))
        /\ out = calculateHierarchicalLayout(nodes, edges, WithoutCenterY)

(* C22's case: two connected nodes share a level under a third, and centerY *)
(* is given                                                                 *)
C22_Witness ==
    /\ pc = "hierarchical"
    /\ "centerY" \in DOMAIN opts
    /\ \E i \in DOMAIN part.connected : \E j \in DOMAIN part.connected :
         /\ i < j
         /\ LevelAt(part.connected[i]) = 0
         /\ LevelAt(part.connected[j]) = 0
         /\ OutOf(part.connected[j]).x = OutOf(part.connected[i]).x + Px(200)
    /\ \E i \in DOMAIN part.connected : LevelAt(part.connected[i]) = 1

(* The places in part.isolated of the nodes of grid row r *)
GridRow(r) ==
    {j \in DOMAIN part.isolated : (j - 1) \div isolatedNodesPerRow(opts) = r}

(* C23: with P = isolatedNodesPerRow >= 1 the i-th of the n isolated nodes   *)
(* is in row r = floor(i / P) and column c = i mod P, at                    *)
(* y = (200 - levelSpacing) + r * isolatedRowSpacing and                   *)
(* x = centerX - (min(P, n - r * P) - 1) * isolatedNodeSpacing / 2           *)
(*     + c * isolatedNodeSpacing, so that the first and the last node of     *)
(* its row are at equal distances on either side of centerX.                *)
C23_IsolatedGridCenteredOnCenterX ==
    (pc = "hierarchical" /\ isolatedNodesPerRow(opts) >= 1) =>
        \A j \in DOMAIN part.isolated :
            LET P == isolatedNodesPerRow(opts)
                n == Len(part.isolated)
                r == (j - 1) \div P
                c == (j - 1) % P
                inRow == Min(P, n - r * P)
                at == OutOf(part.isolated[j])
                first == OutOf(part.isolated[r * P + 1])
                last == OutOf(part.isolated[r * P + inRow])
            IN /\ Cardinality(GridRow(r)) = inRow
               /\ at.y = Px(200 - levelSpacing(opts)) + r * Px(isolatedRowSpacing(opts))
               /\ at.x = Px(Opt(opts, "centerX", 400))
                           - ((inRow - 1) * Px(isolatedNodeSpacing(opts))) \div 2
                           + c * Px(isolatedNodeSpacing(opts))
               /\ first.x + last.x = 2 * Px(Opt(opts, "centerX", 400))

(* C23's case: five isolated nodes in rows of two, the last row short *)
C23_Witness ==
    /\ pc = "hierarchical"
    /\ isolatedNodesPerRow(opts) = 2
    /\ Len(part.isolated) = 5
    /\ OutOf(part.isolated[5]).x = Px(400)
    /\ OutOf(part.isolated[3]).x < Px(400)

--------------------------------------------------------------------------
(* Claims about the grid of calculateBoxLayout *)

BoxRows == boxRows(Len(nodes), BoxCols)

(* The indices of grid row r (0-based) as calculateBoxLayout builds them *)
BoxGridRow(r) == Range(rowsIndices(Len(nodes), BoxCols, r))

(* C24: the box layout uses cols = the least c with c * c >= n and          *)
(* rows = ceil(n / cols); the node of input index i is in grid row           *)
(* floor(i / cols) at place i mod cols; every row but the last holds cols    *)
(* nodes, the last between 1 and cols; every input index gets one position.  *)
C24_BoxGridIsRowMajor ==
    (pc = "box" /\ Len(nodes) > 0) =>
        LET n == Len(nodes)
        IN /\ BoxCols * BoxCols >= n
           /\ (BoxCols - 1) * (BoxCols - 1) < n
           /\ BoxRows * BoxCols >= n
           /\ (BoxRows - 1) * BoxCols < n
           /\ \A r \in 0..(BoxRows - 2) : Cardinality(BoxGridRow(r)) = BoxCols
           /\ Cardinality(BoxGridRow(BoxRows - 1)) \in 1..BoxCols
           /\ Len(out) = n
           /\ \A i \in 1..n :
                /\ out[i].id = nodes[i].id
                /\ Cardinality({r \in 0..(BoxRows - 1) : i \in BoxGridRow(r)}) = 1
                /\ i \in BoxGridRow((i - 1) \div BoxCols)
                /\ rowsIndices(n, BoxCols, (i - 1) \div BoxCols)[((i - 1) % BoxCols) + 1] = i
                /\ \A j \in 1..n :
                     (BoxRowOf(i) = BoxRowOf(j) /\ i < j
                        /\ Opt(opts, "offsetX", 200) >= 0) => out[i].x < out[j].x

(* C24's case: five nodes in three columns, the last row holding two *)
C24_Witness ==
    /\ pc = "box"
    /\ Len(out) = 5
    /\ BoxCols = 3
    /\ BoxRows = 2
    /\ BoxGridRow(1) = {4, 5}
    /\ out[4].x < out[5].x
    /\ out[5].id = nodes[5].id

(* The rectangles of out[i] and out[j] share no area *)
Disjoint(i, j) ==
    \/ out[i].x + Px(nodes[i].width) <= out[j].x
    \/ out[j].x + Px(nodes[j].width) <= out[i].x
    \/ out[i].y + Px(nodeHeight(nodes[i])) <= out[j].y
    \/ out[j].y + Px(nodeHeight(nodes[j])) <= out[i].y

(* C26: calculateBoxLayout with compact = true and offsetX, offsetY >= 0    *)
(* makes no two nodes overlap: the rectangles of width data.width and       *)
(* height 47 + 28 * columnCount at the returned positions of two distinct   *)
(* nodes share no area, a short last row centered on its own included.      *)
C26_CompactBoxNeverOverlaps ==
    (/\ pc = "box"
     /\ Opt(opts, "compact", FALSE)
     /\ Opt(opts, "offsetX", 200) >= 0
     /\ Opt(opts, "offsetY", 150) >= 0) =>
        \A i \in DOMAIN out : \A j \in DOMAIN out : i # j => Disjoint(i, j)

--------------------------------------------------------------------------
(* Claims about the collision step of calculateForceDirectedLayout *)

(* The positions when the first iteration comes to the k-th pair of its     *)
(* collision step: the forces before it have changed velocities only        *)
BeforePair(k) ==
    collideAll(initialPlacement(nodes, opts, random),
               SubSeq(Pairs(Len(nodes)), 1, k - 1), opts)

PairDistance(ps, pair) == Distance(ps[pair[2]].x - ps[pair[1]].x, ps[pair[2]].y - ps[pair[1]].y)

(* C25: in the collision step every pair closer than minDistance *          *)
(* repulsionMultiplier, two nodes on one point included, is                 *)
(* minDistance * repulsionMultiplier apart right after its correction.      *)
(* Stated for the first iteration with one pixel of tolerance for the       *)
(* rounding of the arithmetic.                                              *)
C25_PairPushedToMinDistance ==
    (pc = "force" /\ Opt(opts, "iterations", 50) >= 1) =>
        \A k \in DOMAIN Pairs(Len(nodes)) :
            LET pair == Pairs(Len(nodes))[k]
                before == BeforePair(k)
                after == collidePair(before, pair[1], pair[2], opts)
            IN PairDistance(before, pair) < effectiveMinDist(opts) =>
                 Abs(PairDistance(after, pair) - effectiveMinDist(opts)) <= Px(1)

--------------------------------------------------------------------------
(* Claims about the result of inputDataToNodeAndEdges as a whole *)

(* C28: in hierarchical mode a node that the layout placed in a connected   *)
(* level row is the source or the target of an edge of the returned list.   *)
C28_LevelRowNodesHaveReturnedEdges ==
    (pc = "inputData" /\ kind = "hierarchical") =>
        \A i \in DOMAIN part.connected :
            \E k \in DOMAIN outEdges :
                \/ outEdges[k].source = part.connected[i]
                \/ outEdges[k].target = part.connected[i]

(* C29: for every layout type and every table list with unique names the   *)
(* result holds exactly one node per table: as many nodes as tables, and    *)
(* every table name the id of exactly one of them.                          *)
C29_OneNodePerTable ==
    pc = "inputData" =>
        /\ Len(out) = Len(tables)
        /\ \A i \in DOMAIN tables :
             Cardinality({k \in DOMAIN out : out[k].id = tables[i].name}) = 1
        /\ \A k \in DOMAIN out : \E i \in DOMAIN tables : tables[i].name = out[k].id

(* C29's case: circular mode with linked and isolated tables, the linked    *)
(* ones returned first                                                      *)
C29_Witness ==
    /\ pc = "inputData"
    /\ kind = "circular"
    /\ Len(tables) >= 3
    /\ \E k \in DOMAIN out : out[k].isIsolated
    /\ \E k \in DOMAIN out : ~out[k].isIsolated
    /\ out[1].id # tables[1].name

--------------------------------------------------------------------------
(* Claims about the positions placeNodesByRule returns *)

(* C30: under the rules circular, x, y, box and hierarchical, when the      *)
(* input holds a node flagged isolated and a node not flagged, no two       *)
(* distinct returned nodes have the same position.                          *)
C30_NoTwoNodesOnOnePosition ==
    (/\ pc = "rule"
     /\ kind \in {"circular", "x", "y", "box", "hierarchical"}
     /\ \E i \in DOMAIN nodes : nodes[i].IsIsolated
     /\ \E i \in DOMAIN nodes : ~nodes[i].IsIsolated) =>
        \A i \in DOMAIN out : \A j \in DOMAIN out :
            i # j => (out[i].x # out[j].x \/ out[i].y # out[j].y)

--------------------------------------------------------------------------
(* Claims about the render cycle of ERTableComp *)

(* Nothing is scheduled: no render, no effect *)
Quiet == ~ERTableComp.render /\ ERTableComp.effects = {}

(* C27: a render schedules a layout recomputation only when the table       *)
(* array, the layout type or the value of a layout option it was rendered   *)
(* with is not what the last recomputation used, and once the inputs stop   *)
(* changing the component comes to rest with nothing scheduled.             *)
C27_RecomputationSettles ==
    /\ [](ERTableComp.effects # {} => ERTableComp.callbackDeps # ERTableComp.computedFor)
    /\ <>[]Quiet

====
